---- MODULE Spec2Model ----
(***************************************************************************)
(* dir2prompt (src/src/lib.rs): the directory walker, the directory-name   *)
(* collectors, the prompt assembler and the cleanup of generated prompts,  *)
(* over a file system that is built by the environment and then read and   *)
(* written by the program.                                                 *)
(*                                                                         *)
(* Text (entry names, paths, file contents, the prompt) is a sequence of   *)
(* code points, so that prefixes, suffixes, extensions, lower-casing and   *)
(* the sort order are computed, as the code computes them.                 *)
(***************************************************************************)
EXTENDS Integers, Sequences, FiniteSets, TLC

VARIABLES fs, cmd, runs, scanned, out, prev, cleanOut

vars == <<fs, cmd, runs, scanned, out, prev, cleanOut>>

-----------------------------------------------------------------------------
(* Bounds of the model *)

\* entries below the root the environment creates
MaxNodes == 3
\* components of the longest path below the root
MaxDepth == 2
\* program runs (generation or cleanup) in one behaviour
MaxRuns == 2

-----------------------------------------------------------------------------
(* Text literals *)

ChDot == 46
ChSlash == 47
ChNewline == 10

\* "p", the name of the scanned root directory
RootName == <<112>>
\* "s"
n_s == <<115>>
\* "l", the name of a symbolic link to the root
LinkName == <<108>>
\* "nm"
n_nm == <<110, 109>>
\* ".h"
n_h == <<46, 104>>
\* ".env.example"
n_env_example == <<46, 101, 110, 118, 46, 101, 120, 97, 109, 112, 108, 101>>
\* ".example.env"
n_example_env == <<46, 101, 120, 97, 109, 112, 108, 101, 46, 101, 110, 118>>
\* "a.py"
n_a_py == <<97, 46, 112, 121>>
\* "B.PY"
n_B_PY == <<66, 46, 80, 89>>
\* the one byte 0xFF, a name that is not UTF-8
n_xFF == <<1114367>>
\* "B.PÉ"
n_B_PE == <<66, 46, 80, 201>>
\* "p_prompt.txt"
n_p_prompt == <<112, 95, 112, 114, 111, 109, 112, 116, 46, 116, 120, 116>>
\* "s_prompt.txt"
n_s_prompt == <<115, 95, 112, 114, 111, 109, 112, 116, 46, 116, 120, 116>>
\* "o_prompt.txt"
n_o_prompt == <<111, 95, 112, 114, 111, 109, 112, 116, 46, 116, 120, 116>>
\* "nm_prompt.txt"
n_nm_prompt == <<110, 109, 95, 112, 114, 111, 109, 112, 116, 46, 116, 120, 116>>
\* "o_prompt", a custom --outfile
n_o_outfile == <<111, 95, 112, 114, 111, 109, 112, 116>>
\* ".py"
e_dot_py == <<46, 112, 121>>
\* ".pé"
e_dot_pe == <<46, 112, 233>>
\* "PY"
e_PY == <<80, 89>>
\* "env"
e_env == <<101, 110, 118>>
\* "txt"
f_txt == <<116, 120, 116>>
\* "s/a.py"
f_s_a_py == <<115, 47, 97, 46, 112, 121>>
\* " \u00a0\n": a space, a no-break space, a newline
t_ws == <<32, 160, 10>>
\* " x\n"
t_x == <<32, 120, 10>>

\* "_prompt.txt"
PromptTxt == <<95, 112, 114, 111, 109, 112, 116, 46, 116, 120, 116>>
\* "_prompt"
PromptSuffix == <<95, 112, 114, 111, 109, 112, 116>>
\* ".txt"
DotTxt == <<46, 116, 120, 116>>
\* "BINARY OR UNREADABLE"
BinaryOrUnreadable == <<66, 73, 78, 65, 82, 89, 32, 79, 82, 32, 85, 78, 82, 69, 65, 68, 65, 66, 76, 69>>
\* "EMPTY FILE"
EmptyFile == <<69, 77, 80, 84, 89, 32, 70, 73, 76, 69>>
\* "<context>\n<directory_tree>\n"
DocHead == <<60, 99, 111, 110, 116, 101, 120, 116, 62, 10, 60, 100, 105, 114, 101, 99, 116, 111, 114, 121, 95, 116, 114, 101, 101, 62, 10>>
\* "</directory_tree>\n\n<files>\n\n"
DocMid == <<60, 47, 100, 105, 114, 101, 99, 116, 111, 114, 121, 95, 116, 114, 101, 101, 62, 10, 10, 60, 102, 105, 108, 101, 115, 62, 10, 10>>
\* "</files>\n</context>"
DocTail == <<60, 47, 102, 105, 108, 101, 115, 62, 10, 60, 47, 99, 111, 110, 116, 101, 120, 116, 62>>
\* "<file>\n<path>"
BlockHead == <<60, 102, 105, 108, 101, 62, 10, 60, 112, 97, 116, 104, 62>>
\* "</path>\n<content>\n"
BlockMid == <<60, 47, 112, 97, 116, 104, 62, 10, 60, 99, 111, 110, 116, 101, 110, 116, 62, 10>>
\* "\n</content>\n</file>\n\n"
BlockTail == <<10, 60, 47, 99, 111, 110, 116, 101, 110, 116, 62, 10, 60, 47, 102, 105, 108, 101, 62, 10, 10>>
\* "└── "
ConnLast == <<9492, 9472, 9472, 32>>
\* "├── "
ConnMid == <<9500, 9472, 9472, 32>>
\* "    "
IndentLast == <<32, 32, 32, 32>>
\* "│   "
IndentMid == <<9474, 32, 32, 32>>

-----------------------------------------------------------------------------
(* String operations of the standard library, as the code uses them *)

Range(s) == {s[i] : i \in DOMAIN s}

Last(s) == s[Len(s)]

StartsWith(s, pre) ==
    /\ Len(pre) <= Len(s)
    /\ SubSeq(s, 1, Len(pre)) = pre

EndsWith(s, suf) ==
    /\ Len(suf) <= Len(s)
    /\ SubSeq(s, Len(s) - Len(suf) + 1, Len(s)) = suf

StartsWithDot(s) == StartsWith(s, <<ChDot>>)

\* str::strip_prefix('.').unwrap_or(s)
StripDotPrefix(s) == IF StartsWithDot(s) THEN Tail(s) ELSE s

\* char::to_lowercase's table (Unicode 17.0.0), one-character results: <<first, last,
\* step, difference>> says that first, first + step, ..., last each map to
\* themselves plus the difference
LowercaseTable ==
    { <<65, 90, 1, 32>>, <<192, 214, 1, 32>>, <<216, 222, 1, 32>>, <<256, 302, 2, 1>>,
      <<306, 310, 2, 1>>, <<313, 327, 2, 1>>, <<330, 374, 2, 1>>, <<376, 376, 1, -121>>,
      <<377, 381, 2, 1>>, <<385, 385, 1, 210>>, <<386, 388, 2, 1>>, <<390, 390, 1, 206>>,
      <<391, 391, 1, 1>>, <<393, 394, 1, 205>>, <<395, 395, 1, 1>>, <<398, 398, 1, 79>>,
      <<399, 399, 1, 202>>, <<400, 400, 1, 203>>, <<401, 401, 1, 1>>, <<403, 403, 1, 205>>,
      <<404, 404, 1, 207>>, <<406, 406, 1, 211>>, <<407, 407, 1, 209>>, <<408, 408, 1, 1>>,
      <<412, 412, 1, 211>>, <<413, 413, 1, 213>>, <<415, 415, 1, 214>>, <<416, 420, 2, 1>>,
      <<422, 422, 1, 218>>, <<423, 423, 1, 1>>, <<425, 425, 1, 218>>, <<428, 428, 1, 1>>,
      <<430, 430, 1, 218>>, <<431, 431, 1, 1>>, <<433, 434, 1, 217>>, <<435, 437, 2, 1>>,
      <<439, 439, 1, 219>>, <<440, 440, 1, 1>>, <<444, 444, 1, 1>>, <<452, 452, 1, 2>>,
      <<453, 453, 1, 1>>, <<455, 455, 1, 2>>, <<456, 456, 1, 1>>, <<458, 458, 1, 2>>,
      <<459, 475, 2, 1>>, <<478, 494, 2, 1>>, <<497, 497, 1, 2>>, <<498, 500, 2, 1>>,
      <<502, 502, 1, -97>>, <<503, 503, 1, -56>>, <<504, 542, 2, 1>>, <<544, 544, 1, -130>>,
      <<546, 562, 2, 1>>, <<570, 570, 1, 10795>>, <<571, 571, 1, 1>>, <<573, 573, 1, -163>>,
      <<574, 574, 1, 10792>>, <<577, 577, 1, 1>>, <<579, 579, 1, -195>>, <<580, 580, 1, 69>>,
      <<581, 581, 1, 71>>, <<582, 590, 2, 1>>, <<880, 882, 2, 1>>, <<886, 886, 1, 1>>,
      <<895, 895, 1, 116>>, <<902, 902, 1, 38>>, <<904, 906, 1, 37>>, <<908, 908, 1, 64>>,
      <<910, 911, 1, 63>>, <<913, 929, 1, 32>>, <<931, 939, 1, 32>>, <<975, 975, 1, 8>>,
      <<984, 1006, 2, 1>>, <<1012, 1012, 1, -60>>, <<1015, 1015, 1, 1>>, <<1017, 1017, 1, -7>>,
      <<1018, 1018, 1, 1>>, <<1021, 1023, 1, -130>>, <<1024, 1039, 1, 80>>,
      <<1040, 1071, 1, 32>>, <<1120, 1152, 2, 1>>, <<1162, 1214, 2, 1>>, <<1216, 1216, 1, 15>>,
      <<1217, 1229, 2, 1>>, <<1232, 1326, 2, 1>>, <<1329, 1366, 1, 48>>,
      <<4256, 4293, 1, 7264>>, <<4295, 4295, 1, 7264>>, <<4301, 4301, 1, 7264>>,
      <<5024, 5103, 1, 38864>>, <<5104, 5109, 1, 8>>, <<7305, 7305, 1, 1>>,
      <<7312, 7354, 1, -3008>>, <<7357, 7359, 1, -3008>>, <<7680, 7828, 2, 1>>,
      <<7838, 7838, 1, -7615>>, <<7840, 7934, 2, 1>>, <<7944, 7951, 1, -8>>,
      <<7960, 7965, 1, -8>>, <<7976, 7983, 1, -8>>, <<7992, 7999, 1, -8>>,
      <<8008, 8013, 1, -8>>, <<8025, 8031, 2, -8>>, <<8040, 8047, 1, -8>>,
      <<8072, 8079, 1, -8>>, <<8088, 8095, 1, -8>>, <<8104, 8111, 1, -8>>,
      <<8120, 8121, 1, -8>>, <<8122, 8123, 1, -74>>, <<8124, 8124, 1, -9>>,
      <<8136, 8139, 1, -86>>, <<8140, 8140, 1, -9>>, <<8152, 8153, 1, -8>>,
      <<8154, 8155, 1, -100>>, <<8168, 8169, 1, -8>>, <<8170, 8171, 1, -112>>,
      <<8172, 8172, 1, -7>>, <<8184, 8185, 1, -128>>, <<8186, 8187, 1, -126>>,
      <<8188, 8188, 1, -9>>, <<8486, 8486, 1, -7517>>, <<8490, 8490, 1, -8383>>,
      <<8491, 8491, 1, -8262>>, <<8498, 8498, 1, 28>>, <<8544, 8559, 1, 16>>,
      <<8579, 8579, 1, 1>>, <<9398, 9423, 1, 26>>, <<11264, 11311, 1, 48>>,
      <<11360, 11360, 1, 1>>, <<11362, 11362, 1, -10743>>, <<11363, 11363, 1, -3814>>,
      <<11364, 11364, 1, -10727>>, <<11367, 11371, 2, 1>>, <<11373, 11373, 1, -10780>>,
      <<11374, 11374, 1, -10749>>, <<11375, 11375, 1, -10783>>, <<11376, 11376, 1, -10782>>,
      <<11378, 11378, 1, 1>>, <<11381, 11381, 1, 1>>, <<11390, 11391, 1, -10815>>,
      <<11392, 11490, 2, 1>>, <<11499, 11501, 2, 1>>, <<11506, 11506, 1, 1>>,
      <<42560, 42604, 2, 1>>, <<42624, 42650, 2, 1>>, <<42786, 42798, 2, 1>>,
      <<42802, 42862, 2, 1>>, <<42873, 42875, 2, 1>>, <<42877, 42877, 1, -35332>>,
      <<42878, 42886, 2, 1>>, <<42891, 42891, 1, 1>>, <<42893, 42893, 1, -42280>>,
      <<42896, 42898, 2, 1>>, <<42902, 42920, 2, 1>>, <<42922, 42922, 1, -42308>>,
      <<42923, 42923, 1, -42319>>, <<42924, 42924, 1, -42315>>, <<42925, 42925, 1, -42305>>,
      <<42926, 42926, 1, -42308>>, <<42928, 42928, 1, -42258>>, <<42929, 42929, 1, -42282>>,
      <<42930, 42930, 1, -42261>>, <<42931, 42931, 1, 928>>, <<42932, 42946, 2, 1>>,
      <<42948, 42948, 1, -48>>, <<42949, 42949, 1, -42307>>, <<42950, 42950, 1, -35384>>,
      <<42951, 42953, 2, 1>>, <<42955, 42955, 1, -42343>>, <<42956, 42970, 2, 1>>,
      <<42972, 42972, 1, -42561>>, <<42997, 42997, 1, 1>>, <<65313, 65338, 1, 32>>,
      <<66560, 66599, 1, 40>>, <<66736, 66771, 1, 40>>, <<66928, 66964, 2, 39>>,
      <<66929, 66938, 1, 39>>, <<66941, 66954, 1, 39>>, <<66957, 66962, 1, 39>>,
      <<66965, 66965, 1, 39>>, <<68736, 68786, 1, 64>>, <<68944, 68965, 1, 32>>,
      <<71840, 71871, 1, 32>>, <<93760, 93791, 1, 32>>, <<93856, 93880, 1, 27>>,
      <<125184, 125217, 1, 34>> }

\* the Cased property (Unicode 17.0.0), as <<first, last>> ranges
CasedRanges ==
    { <<65, 90>>, <<97, 122>>, <<170, 170>>, <<181, 181>>, <<186, 186>>, <<192, 214>>,
      <<216, 246>>, <<248, 442>>, <<444, 447>>, <<452, 659>>, <<662, 696>>, <<704, 705>>,
      <<736, 740>>, <<837, 837>>, <<880, 883>>, <<886, 887>>, <<890, 893>>, <<895, 895>>,
      <<902, 902>>, <<904, 906>>, <<908, 908>>, <<910, 929>>, <<931, 1013>>, <<1015, 1153>>,
      <<1162, 1327>>, <<1329, 1366>>, <<1376, 1416>>, <<4256, 4293>>, <<4295, 4295>>,
      <<4301, 4301>>, <<4304, 4346>>, <<4348, 4351>>, <<5024, 5109>>, <<5112, 5117>>,
      <<7296, 7306>>, <<7312, 7354>>, <<7357, 7359>>, <<7424, 7615>>, <<7680, 7957>>,
      <<7960, 7965>>, <<7968, 8005>>, <<8008, 8013>>, <<8016, 8023>>, <<8025, 8025>>,
      <<8027, 8027>>, <<8029, 8029>>, <<8031, 8061>>, <<8064, 8116>>, <<8118, 8124>>,
      <<8126, 8126>>, <<8130, 8132>>, <<8134, 8140>>, <<8144, 8147>>, <<8150, 8155>>,
      <<8160, 8172>>, <<8178, 8180>>, <<8182, 8188>>, <<8305, 8305>>, <<8319, 8319>>,
      <<8336, 8348>>, <<8450, 8450>>, <<8455, 8455>>, <<8458, 8467>>, <<8469, 8469>>,
      <<8473, 8477>>, <<8484, 8484>>, <<8486, 8486>>, <<8488, 8488>>, <<8490, 8493>>,
      <<8495, 8500>>, <<8505, 8505>>, <<8508, 8511>>, <<8517, 8521>>, <<8526, 8526>>,
      <<8544, 8575>>, <<8579, 8580>>, <<9398, 9449>>, <<11264, 11492>>, <<11499, 11502>>,
      <<11506, 11507>>, <<11520, 11557>>, <<11559, 11559>>, <<11565, 11565>>, <<42560, 42605>>,
      <<42624, 42653>>, <<42786, 42887>>, <<42891, 42894>>, <<42896, 42972>>, <<42993, 42998>>,
      <<43000, 43002>>, <<43824, 43866>>, <<43868, 43881>>, <<43888, 43967>>, <<64256, 64262>>,
      <<64275, 64279>>, <<65313, 65338>>, <<65345, 65370>>, <<66560, 66639>>, <<66736, 66771>>,
      <<66776, 66811>>, <<66928, 66938>>, <<66940, 66954>>, <<66956, 66962>>, <<66964, 66965>>,
      <<66967, 66977>>, <<66979, 66993>>, <<66995, 67001>>, <<67003, 67004>>, <<67456, 67456>>,
      <<67459, 67461>>, <<67463, 67504>>, <<67506, 67514>>, <<68736, 68786>>, <<68800, 68850>>,
      <<68944, 68965>>, <<68976, 68997>>, <<71840, 71903>>, <<93760, 93823>>, <<93856, 93880>>,
      <<93883, 93907>>, <<119808, 119892>>, <<119894, 119964>>, <<119966, 119967>>,
      <<119970, 119970>>, <<119973, 119974>>, <<119977, 119980>>, <<119982, 119993>>,
      <<119995, 119995>>, <<119997, 120003>>, <<120005, 120069>>, <<120071, 120074>>,
      <<120077, 120084>>, <<120086, 120092>>, <<120094, 120121>>, <<120123, 120126>>,
      <<120128, 120132>>, <<120134, 120134>>, <<120138, 120144>>, <<120146, 120485>>,
      <<120488, 120512>>, <<120514, 120538>>, <<120540, 120570>>, <<120572, 120596>>,
      <<120598, 120628>>, <<120630, 120654>>, <<120656, 120686>>, <<120688, 120712>>,
      <<120714, 120744>>, <<120746, 120770>>, <<120772, 120779>>, <<122624, 122633>>,
      <<122635, 122654>>, <<122661, 122666>>, <<122928, 122989>>, <<125184, 125251>>,
      <<127280, 127305>>, <<127312, 127337>>, <<127344, 127369>> }

\* the Case_Ignorable property (Unicode 17.0.0), as <<first, last>> ranges
CaseIgnorableRanges ==
    { <<39, 39>>, <<46, 46>>, <<58, 58>>, <<94, 94>>, <<96, 96>>, <<168, 168>>, <<173, 173>>,
      <<175, 175>>, <<180, 180>>, <<183, 184>>, <<688, 879>>, <<884, 885>>, <<890, 890>>,
      <<900, 901>>, <<903, 903>>, <<1155, 1161>>, <<1369, 1369>>, <<1375, 1375>>,
      <<1425, 1469>>, <<1471, 1471>>, <<1473, 1474>>, <<1476, 1477>>, <<1479, 1479>>,
      <<1524, 1524>>, <<1536, 1541>>, <<1552, 1562>>, <<1564, 1564>>, <<1600, 1600>>,
      <<1611, 1631>>, <<1648, 1648>>, <<1750, 1757>>, <<1759, 1768>>, <<1770, 1773>>,
      <<1807, 1807>>, <<1809, 1809>>, <<1840, 1866>>, <<1958, 1968>>, <<2027, 2037>>,
      <<2042, 2042>>, <<2045, 2045>>, <<2070, 2093>>, <<2137, 2139>>, <<2184, 2184>>,
      <<2192, 2193>>, <<2199, 2207>>, <<2249, 2306>>, <<2362, 2362>>, <<2364, 2364>>,
      <<2369, 2376>>, <<2381, 2381>>, <<2385, 2391>>, <<2402, 2403>>, <<2417, 2417>>,
      <<2433, 2433>>, <<2492, 2492>>, <<2497, 2500>>, <<2509, 2509>>, <<2530, 2531>>,
      <<2558, 2558>>, <<2561, 2562>>, <<2620, 2620>>, <<2625, 2626>>, <<2631, 2632>>,
      <<2635, 2637>>, <<2641, 2641>>, <<2672, 2673>>, <<2677, 2677>>, <<2689, 2690>>,
      <<2748, 2748>>, <<2753, 2757>>, <<2759, 2760>>, <<2765, 2765>>, <<2786, 2787>>,
      <<2810, 2815>>, <<2817, 2817>>, <<2876, 2876>>, <<2879, 2879>>, <<2881, 2884>>,
      <<2893, 2893>>, <<2901, 2902>>, <<2914, 2915>>, <<2946, 2946>>, <<3008, 3008>>,
      <<3021, 3021>>, <<3072, 3072>>, <<3076, 3076>>, <<3132, 3132>>, <<3134, 3136>>,
      <<3142, 3144>>, <<3146, 3149>>, <<3157, 3158>>, <<3170, 3171>>, <<3201, 3201>>,
      <<3260, 3260>>, <<3263, 3263>>, <<3270, 3270>>, <<3276, 3277>>, <<3298, 3299>>,
      <<3328, 3329>>, <<3387, 3388>>, <<3393, 3396>>, <<3405, 3405>>, <<3426, 3427>>,
      <<3457, 3457>>, <<3530, 3530>>, <<3538, 3540>>, <<3542, 3542>>, <<3633, 3633>>,
      <<3636, 3642>>, <<3654, 3662>>, <<3761, 3761>>, <<3764, 3772>>, <<3782, 3782>>,
      <<3784, 3790>>, <<3864, 3865>>, <<3893, 3893>>, <<3895, 3895>>, <<3897, 3897>>,
      <<3953, 3966>>, <<3968, 3972>>, <<3974, 3975>>, <<3981, 3991>>, <<3993, 4028>>,
      <<4038, 4038>>, <<4141, 4144>>, <<4146, 4151>>, <<4153, 4154>>, <<4157, 4158>>,
      <<4184, 4185>>, <<4190, 4192>>, <<4209, 4212>>, <<4226, 4226>>, <<4229, 4230>>,
      <<4237, 4237>>, <<4253, 4253>>, <<4348, 4348>>, <<4957, 4959>>, <<5906, 5908>>,
      <<5938, 5939>>, <<5970, 5971>>, <<6002, 6003>>, <<6068, 6069>>, <<6071, 6077>>,
      <<6086, 6086>>, <<6089, 6099>>, <<6103, 6103>>, <<6109, 6109>>, <<6155, 6159>>,
      <<6211, 6211>>, <<6277, 6278>>, <<6313, 6313>>, <<6432, 6434>>, <<6439, 6440>>,
      <<6450, 6450>>, <<6457, 6459>>, <<6679, 6680>>, <<6683, 6683>>, <<6742, 6742>>,
      <<6744, 6750>>, <<6752, 6752>>, <<6754, 6754>>, <<6757, 6764>>, <<6771, 6780>>,
      <<6783, 6783>>, <<6823, 6823>>, <<6832, 6877>>, <<6880, 6891>>, <<6912, 6915>>,
      <<6964, 6964>>, <<6966, 6970>>, <<6972, 6972>>, <<6978, 6978>>, <<7019, 7027>>,
      <<7040, 7041>>, <<7074, 7077>>, <<7080, 7081>>, <<7083, 7085>>, <<7142, 7142>>,
      <<7144, 7145>>, <<7149, 7149>>, <<7151, 7153>>, <<7212, 7219>>, <<7222, 7223>>,
      <<7288, 7293>>, <<7376, 7378>>, <<7380, 7392>>, <<7394, 7400>>, <<7405, 7405>>,
      <<7412, 7412>>, <<7416, 7417>>, <<7468, 7530>>, <<7544, 7544>>, <<7579, 7679>>,
      <<8125, 8125>>, <<8127, 8129>>, <<8141, 8143>>, <<8157, 8159>>, <<8173, 8175>>,
      <<8189, 8190>>, <<8203, 8207>>, <<8216, 8217>>, <<8228, 8228>>, <<8231, 8231>>,
      <<8234, 8238>>, <<8288, 8292>>, <<8294, 8303>>, <<8305, 8305>>, <<8319, 8319>>,
      <<8336, 8348>>, <<8400, 8432>>, <<11388, 11389>>, <<11503, 11505>>, <<11631, 11631>>,
      <<11647, 11647>>, <<11744, 11775>>, <<11823, 11823>>, <<12293, 12293>>, <<12330, 12333>>,
      <<12337, 12341>>, <<12347, 12347>>, <<12441, 12446>>, <<12540, 12542>>, <<40981, 40981>>,
      <<42232, 42237>>, <<42508, 42508>>, <<42607, 42610>>, <<42612, 42621>>, <<42623, 42623>>,
      <<42652, 42655>>, <<42736, 42737>>, <<42752, 42785>>, <<42864, 42864>>, <<42888, 42890>>,
      <<42993, 42996>>, <<43000, 43001>>, <<43010, 43010>>, <<43014, 43014>>, <<43019, 43019>>,
      <<43045, 43046>>, <<43052, 43052>>, <<43204, 43205>>, <<43232, 43249>>, <<43263, 43263>>,
      <<43302, 43309>>, <<43335, 43345>>, <<43392, 43394>>, <<43443, 43443>>, <<43446, 43449>>,
      <<43452, 43453>>, <<43471, 43471>>, <<43493, 43494>>, <<43561, 43566>>, <<43569, 43570>>,
      <<43573, 43574>>, <<43587, 43587>>, <<43596, 43596>>, <<43632, 43632>>, <<43644, 43644>>,
      <<43696, 43696>>, <<43698, 43700>>, <<43703, 43704>>, <<43710, 43711>>, <<43713, 43713>>,
      <<43741, 43741>>, <<43756, 43757>>, <<43763, 43764>>, <<43766, 43766>>, <<43867, 43871>>,
      <<43881, 43883>>, <<44005, 44005>>, <<44008, 44008>>, <<44013, 44013>>, <<64286, 64286>>,
      <<64434, 64450>>, <<65024, 65039>>, <<65043, 65043>>, <<65056, 65071>>, <<65106, 65106>>,
      <<65109, 65109>>, <<65279, 65279>>, <<65287, 65287>>, <<65294, 65294>>, <<65306, 65306>>,
      <<65342, 65342>>, <<65344, 65344>>, <<65392, 65392>>, <<65438, 65439>>, <<65507, 65507>>,
      <<65529, 65531>>, <<66045, 66045>>, <<66272, 66272>>, <<66422, 66426>>, <<67456, 67461>>,
      <<67463, 67504>>, <<67506, 67514>>, <<68097, 68099>>, <<68101, 68102>>, <<68108, 68111>>,
      <<68152, 68154>>, <<68159, 68159>>, <<68325, 68326>>, <<68900, 68903>>, <<68942, 68942>>,
      <<68969, 68973>>, <<68975, 68975>>, <<69291, 69292>>, <<69317, 69317>>, <<69370, 69375>>,
      <<69446, 69456>>, <<69506, 69509>>, <<69633, 69633>>, <<69688, 69702>>, <<69744, 69744>>,
      <<69747, 69748>>, <<69759, 69761>>, <<69811, 69814>>, <<69817, 69818>>, <<69821, 69821>>,
      <<69826, 69826>>, <<69837, 69837>>, <<69888, 69890>>, <<69927, 69931>>, <<69933, 69940>>,
      <<70003, 70003>>, <<70016, 70017>>, <<70070, 70078>>, <<70089, 70092>>, <<70095, 70095>>,
      <<70191, 70193>>, <<70196, 70196>>, <<70198, 70199>>, <<70206, 70206>>, <<70209, 70209>>,
      <<70367, 70367>>, <<70371, 70378>>, <<70400, 70401>>, <<70459, 70460>>, <<70464, 70464>>,
      <<70502, 70508>>, <<70512, 70516>>, <<70587, 70592>>, <<70606, 70606>>, <<70608, 70608>>,
      <<70610, 70610>>, <<70625, 70626>>, <<70712, 70719>>, <<70722, 70724>>, <<70726, 70726>>,
      <<70750, 70750>>, <<70835, 70840>>, <<70842, 70842>>, <<70847, 70848>>, <<70850, 70851>>,
      <<71090, 71093>>, <<71100, 71101>>, <<71103, 71104>>, <<71132, 71133>>, <<71219, 71226>>,
      <<71229, 71229>>, <<71231, 71232>>, <<71339, 71339>>, <<71341, 71341>>, <<71344, 71349>>,
      <<71351, 71351>>, <<71453, 71453>>, <<71455, 71455>>, <<71458, 71461>>, <<71463, 71467>>,
      <<71727, 71735>>, <<71737, 71738>>, <<71995, 71996>>, <<71998, 71998>>, <<72003, 72003>>,
      <<72148, 72151>>, <<72154, 72155>>, <<72160, 72160>>, <<72193, 72202>>, <<72243, 72248>>,
      <<72251, 72254>>, <<72263, 72263>>, <<72273, 72278>>, <<72281, 72283>>, <<72330, 72342>>,
      <<72344, 72345>>, <<72544, 72544>>, <<72546, 72548>>, <<72550, 72550>>, <<72752, 72758>>,
      <<72760, 72765>>, <<72767, 72767>>, <<72850, 72871>>, <<72874, 72880>>, <<72882, 72883>>,
      <<72885, 72886>>, <<73009, 73014>>, <<73018, 73018>>, <<73020, 73021>>, <<73023, 73029>>,
      <<73031, 73031>>, <<73104, 73105>>, <<73109, 73109>>, <<73111, 73111>>, <<73177, 73177>>,
      <<73459, 73460>>, <<73472, 73473>>, <<73526, 73530>>, <<73536, 73536>>, <<73538, 73538>>,
      <<73562, 73562>>, <<78896, 78912>>, <<78919, 78933>>, <<90398, 90409>>, <<90413, 90415>>,
      <<92912, 92916>>, <<92976, 92982>>, <<92992, 92995>>, <<93504, 93506>>, <<93547, 93548>>,
      <<94031, 94031>>, <<94095, 94111>>, <<94176, 94177>>, <<94179, 94180>>, <<94194, 94195>>,
      <<110576, 110579>>, <<110581, 110587>>, <<110589, 110590>>, <<113821, 113822>>,
      <<113824, 113827>>, <<118528, 118573>>, <<118576, 118598>>, <<119143, 119145>>,
      <<119155, 119170>>, <<119173, 119179>>, <<119210, 119213>>, <<119362, 119364>>,
      <<121344, 121398>>, <<121403, 121452>>, <<121461, 121461>>, <<121476, 121476>>,
      <<121499, 121503>>, <<121505, 121519>>, <<122880, 122886>>, <<122888, 122904>>,
      <<122907, 122913>>, <<122915, 122916>>, <<122918, 122922>>, <<122928, 122989>>,
      <<123023, 123023>>, <<123184, 123197>>, <<123566, 123566>>, <<123628, 123631>>,
      <<124139, 124143>>, <<124398, 124399>>, <<124643, 124643>>, <<124646, 124646>>,
      <<124654, 124655>>, <<124661, 124661>>, <<124671, 124671>>, <<125136, 125142>>,
      <<125252, 125259>>, <<127995, 127999>>, <<917505, 917505>>, <<917536, 917631>>,
      <<917760, 917999>> }

\* char::to_lowercase: an ASCII character by to_ascii_lowercase, any other by
\* the table, the two characters "i" and the combining dot above for the
\* capital I with dot above, the character itself when the table has none
LowerChar(c) ==
    IF c < 128 THEN (IF c >= 65 /\ c <= 90 THEN <<c + 32>> ELSE <<c>>)
    ELSE IF c = 304 THEN <<105, 775>>
    ELSE IF \E r \in LowercaseTable : c >= r[1] /\ c <= r[2] /\ (c - r[1]) % r[3] = 0
    THEN LET r == CHOOSE r \in LowercaseTable : c >= r[1] /\ c <= r[2] /\ (c - r[1]) % r[3] = 0
         IN  <<c + r[4]>>
    ELSE <<c>>

Cased(c) == \E r \in CasedRanges : c >= r[1] /\ c <= r[2]

CaseIgnorable(c) == \E r \in CaseIgnorableRanges : c >= r[1] /\ c <= r[2]

\* case_ignorable_then_cased: the first character that is not case-ignorable is cased
RECURSIVE CaseIgnorableThenCased(_)
CaseIgnorableThenCased(s) ==
    IF s = <<>> THEN FALSE
    ELSE IF CaseIgnorable(Head(s)) THEN CaseIgnorableThenCased(Tail(s))
    ELSE Cased(Head(s))

Reverse(s) == [i \in DOMAIN s |-> s[Len(s) + 1 - i]]

\* str::to_lowercase: each character lower-cased, a capital sigma that ends a
\* word becoming the final sigma
RECURSIVE LowerFrom(_, _)
LowerFrom(s, i) ==
    IF i > Len(s) THEN <<>>
    ELSE (IF s[i] = 931
          THEN IF /\ CaseIgnorableThenCased(Reverse(SubSeq(s, 1, i - 1)))
                  /\ ~CaseIgnorableThenCased(SubSeq(s, i + 1, Len(s)))
               THEN <<962>> ELSE <<963>>
          ELSE LowerChar(s[i])) \o LowerFrom(s, i + 1)

ToLowercase(s) == LowerFrom(s, 1)

\* char::is_whitespace: the White_Space property
IsWhitespace(c) ==
    \/ c \in {9, 10, 11, 12, 13, 32, 133, 160, 5760, 8232, 8233, 8239, 8287, 12288}
    \/ (c >= 8192 /\ c <= 8202)

\* content.trim().is_empty()
TrimIsEmpty(s) == \A i \in DOMAIN s : IsWhitespace(s[i])

\* A file name is a sequence of units.  A unit below 1114112 is a character the
\* name spells in well-formed UTF-8; a unit 1114112 + b is the byte b (128..255)
\* of a name where it is no part of a well-formed sequence.
IsInvalidByte(u) == u >= 1114112
ByteOf(u) == u - 1114112

\* OsStr::to_str is Some: the name is well-formed UTF-8
IsUtf8(name) == \A i \in DOMAIN name : ~IsInvalidByte(name[i])

\* U+FFFD REPLACEMENT CHARACTER
ReplacementChar == 65533

\* a continuation byte
IsContinuation(u) == IsInvalidByte(u) /\ ByteOf(u) >= 128 /\ ByteOf(u) <= 191

\* the second byte a sequence led by the byte b1 admits
SecondByteFits(b1, u) ==
    /\ IsInvalidByte(u)
    /\ LET b == ByteOf(u)
       IN  IF b1 = 224 THEN b >= 160 /\ b <= 191
           ELSE IF b1 = 237 THEN b >= 128 /\ b <= 159
           ELSE IF b1 = 240 THEN b >= 144 /\ b <= 191
           ELSE IF b1 = 244 THEN b >= 128 /\ b <= 143
           ELSE b >= 128 /\ b <= 191

\* the length of the sequence a leading byte announces, 1 for a byte that leads none
Utf8CharWidth(b1) ==
    IF b1 >= 194 /\ b1 <= 223 THEN 2
    ELSE IF b1 >= 224 /\ b1 <= 239 THEN 3
    ELSE IF b1 >= 240 /\ b1 <= 244 THEN 4
    ELSE 1

\* how many bytes from position i on make one ill-formed sequence: the leading
\* byte and the bytes after it that continue it as far as they fit
InvalidLen(s, i) ==
    LET b1 == ByteOf(s[i])
        w == Utf8CharWidth(b1)
    IN  IF w = 1 THEN 1
        ELSE IF i + 1 > Len(s) \/ ~SecondByteFits(b1, s[i + 1]) THEN 1
        ELSE IF w = 2 \/ i + 2 > Len(s) \/ ~IsContinuation(s[i + 2]) THEN 2
        ELSE IF w = 3 \/ i + 3 > Len(s) \/ ~IsContinuation(s[i + 3]) THEN 3
        ELSE 4

\* OsStr::to_string_lossy: every ill-formed sequence becomes one U+FFFD
RECURSIVE LossyFrom(_, _)
LossyFrom(s, i) ==
    IF i > Len(s) THEN <<>>
    ELSE IF IsInvalidByte(s[i]) THEN <<ReplacementChar>> \o LossyFrom(s, i + InvalidLen(s, i))
    ELSE <<s[i]>> \o LossyFrom(s, i + 1)

ToStringLossy(name) == LossyFrom(name, 1)

\* the names of a listing, each as to_string_lossy gives it
LossyNames(entries) == [i \in DOMAIN entries |-> ToStringLossy(entries[i])]

\* index of the last '.' of a name, 0 when there is none
LastDot(name) ==
    LET dots == {i \in DOMAIN name : name[i] = ChDot}
    IN  IF dots = {} THEN 0 ELSE CHOOSE i \in dots : \A j \in dots : j <= i

\* Path::extension of a one-component path
Extension(name) ==
    IF name = <<ChDot, ChDot>> \/ LastDot(name) <= 1
    THEN [some |-> FALSE, val |-> <<>>]
    ELSE [some |-> TRUE, val |-> SubSeq(name, LastDot(name) + 1, Len(name))]

\* Path::file_stem of a one-component path
FileStem(name) ==
    IF name = <<ChDot, ChDot>> \/ LastDot(name) <= 1
    THEN name
    ELSE SubSeq(name, 1, LastDot(name) - 1)

\* str::strip_suffix
StripSuffix(s, suf) ==
    IF EndsWith(s, suf)
    THEN [some |-> TRUE, val |-> SubSeq(s, 1, Len(s) - Len(suf))]
    ELSE [some |-> FALSE, val |-> <<>>]

\* the order of String: lexicographic by code unit
RECURSIVE StrLess(_, _)
StrLess(a, b) ==
    IF a = <<>> THEN b # <<>>
    ELSE IF b = <<>> THEN FALSE
    ELSE IF a[1] # b[1] THEN a[1] < b[1]
    ELSE StrLess(Tail(a), Tail(b))

RECURSIVE SortInsert(_, _)
SortInsert(s, x) ==
    IF s = <<>> THEN <<x>>
    ELSE IF StrLess(x, s[1]) THEN <<x>> \o s
    ELSE <<s[1]>> \o SortInsert(Tail(s), x)

\* Vec<String>::sort
RECURSIVE Sort(_)
Sort(s) == IF s = <<>> THEN <<>> ELSE SortInsert(Sort(Tail(s)), Head(s))

\* the text of a relative path: its components joined by '/'
RECURSIVE PathString(_)
PathString(rel) ==
    IF rel = <<>> THEN <<>>
    ELSE IF Len(rel) = 1 THEN rel[1]
    ELSE rel[1] \o <<ChSlash>> \o PathString(Tail(rel))

\* helper: merge default + CLI ignore lists
Merge(base, extra) == base \o extra

-----------------------------------------------------------------------------
(* The file system *)

DirNode == [kind |-> "dir", readable |-> FALSE, text |-> <<>>]
FileNode(readable, text) == [kind |-> "file", readable |-> readable, text |-> text]

\* what a file the environment creates holds: text, or nothing that reads as
\* text, or no character, or blanks only
TextFile == FileNode(TRUE, t_x)
Contents == {FileNode(FALSE, <<>>), FileNode(TRUE, <<>>), FileNode(TRUE, t_ws), TextFile}

Root == <<>>
\* the working directory when it is not inside the scanned tree
Outside == <<<<ChSlash>>>>

\* Path::is_dir
IsDir(f, p) == p \in DOMAIN f /\ f[p].kind = "dir"
IsFile(f, p) == p \in DOMAIN f /\ f[p].kind = "file"

Parent(p) == SubSeq(p, 1, Len(p) - 1)

\* the names of the entries of a directory
ChildNames(f, abs) == {Last(p) : p \in {q \in DOMAIN f : Len(q) = Len(abs) + 1 /\ Parent(q) = abs}}

\* every order in which a set of names can be listed
Listings(names) ==
    {l \in [1..Cardinality(names) -> names] : \A i, j \in DOMAIN l : i # j => l[i] # l[j]}

\* what the file system answers during one run: for every directory, its
\* entries in some order of the file system's choosing
RECURSIVE OrdersOver(_, _)
OrdersOver(f, dirs) ==
    IF dirs = {} THEN {<<>>}
    ELSE LET d == CHOOSE x \in dirs : TRUE
         IN  {(d :> l) @@ o : l \in Listings(ChildNames(f, d)), o \in OrdersOver(f, dirs \ {d})}

ListOrders(f) == OrdersOver(f, {p \in DOMAIN f : f[p].kind = "dir"})

\* fs::read_dir: the names in a directory, in the listing order ord
ReadDir(f, abs, ord) == ord[abs]

-----------------------------------------------------------------------------
(* Directory-name collectors *)

RECURSIVE CollectDirs(_, _, _, _)
RECURSIVE CollectDirsLoop(_, _, _, _, _, _, _)

\* the `for entry in entries` loop of collect_dirs: the entries are the lossy
\* names, and abs.join(entry) is the entry itself only when its name is UTF-8
CollectDirsLoop(f, abs, dir_ignores, ord, entries, i, dirs) ==
    IF i > Len(entries) THEN dirs
    ELSE LET entry == entries[i]
             abs_path == abs \o <<entry>>
         IN  IF StartsWithDot(entry)
             THEN CollectDirsLoop(f, abs, dir_ignores, ord, entries, i + 1, dirs)
             ELSE IF IsDir(f, abs_path) /\ entry \notin Range(dir_ignores)
             THEN CollectDirsLoop(f, abs, dir_ignores, ord, entries, i + 1,
                      (dirs \cup {entry}) \cup CollectDirs(f, abs_path, dir_ignores, ord))
             ELSE CollectDirsLoop(f, abs, dir_ignores, ord, entries, i + 1, dirs)

\* collect_dirs: the names of the non-ignored directories (generation)
CollectDirs(f, abs, dir_ignores, ord) ==
    IF ~IsDir(f, abs) THEN {}
    ELSE CollectDirsLoop(f, abs, dir_ignores, ord, Sort(LossyNames(ReadDir(f, abs, ord))), 1, {})

RECURSIVE CollectAllSubDirNames(_, _, _, _, _)
RECURSIVE CollectAllSubDirNamesLoop(_, _, _, _, _, _, _)

\* variant: an ignored or dot directory is not named but is still entered
RECURSIVE CollectAllSubDirNamesLoopDeep(_, _, _, _, _, _, _)
CollectAllSubDirNamesLoopDeep(f, current_dir, ignore_dirs, ord, entries, i, names_set) ==
    IF i > Len(entries) THEN names_set
    ELSE LET path == current_dir \o <<entries[i]>>
             name == ToStringLossy(entries[i])
         IN  IF IsDir(f, path)
             THEN CollectAllSubDirNamesLoopDeep(f, current_dir, ignore_dirs, ord, entries, i + 1,
                      CollectAllSubDirNames(f, path, ignore_dirs, ord,
                          IF ~StartsWithDot(name) /\ name \notin Range(ignore_dirs)
                                 /\ IsUtf8(entries[i])
                          THEN names_set \cup {entries[i]} ELSE names_set))
             ELSE CollectAllSubDirNamesLoopDeep(f, current_dir, ignore_dirs, ord, entries, i + 1, names_set)

\* the `for entry in fs::read_dir(current_dir)?` loop of collect_all_sub_dir_names:
\* the tests are on the lossy name, the name is inserted when it is UTF-8, and
\* the directory is entered by its own path either way
CollectAllSubDirNamesLoop(f, current_dir, ignore_dirs, ord, entries, i, names_set) ==
    IF i > Len(entries) THEN names_set
    ELSE LET path == current_dir \o <<entries[i]>>
             name == ToStringLossy(entries[i])
         IN  IF IsDir(f, path) /\ ~StartsWithDot(name) /\ name \notin Range(ignore_dirs)
             THEN CollectAllSubDirNamesLoop(f, current_dir, ignore_dirs, ord, entries, i + 1,
                      CollectAllSubDirNames(f, path, ignore_dirs, ord,
                          IF IsUtf8(entries[i]) THEN names_set \cup {entries[i]} ELSE names_set))
             ELSE CollectAllSubDirNamesLoop(f, current_dir, ignore_dirs, ord, entries, i + 1, names_set)

\* collect_all_sub_dir_names: pass 1 of the cleanup
CollectAllSubDirNames(f, current_dir, ignore_dirs, ord, names_set) ==
    IF ~IsDir(f, current_dir) THEN names_set
    ELSE CollectAllSubDirNamesLoop(f, current_dir, ignore_dirs, ord,
                                   ReadDir(f, current_dir, ord), 1, names_set)

-----------------------------------------------------------------------------
(* The tree walker *)

\* one line of the tree text, as the walker pushes it
TreeLine(indent, connector, name, is_dir) ==
    [indent |-> indent, connector |-> connector, name |-> name, is_dir |-> is_dir]

LineText(line) ==
    line.indent \o line.connector \o line.name
        \o (IF line.is_dir THEN <<ChSlash, ChNewline>> ELSE <<ChNewline>>)

RECURSIVE TreeText(_)
TreeText(tree) == IF tree = <<>> THEN <<>> ELSE LineText(Head(tree)) \o TreeText(Tail(tree))

\* variant: every dotfile is hidden, the example-env names too
DotHiddenNoExceptions(entry_name) == StartsWithDot(entry_name)

\* the dotfile rule of walk
DotHidden(entry_name) ==
    /\ StartsWithDot(entry_name)
    /\ entry_name # n_env_example
    /\ entry_name # n_example_env

\* variant: the extension is compared as it is spelled
ExtIgnoredCaseSensitive(entry_name, ignore_exts) ==
    LET ext == Extension(entry_name)
    IN  ext.some /\ ext.val \in ignore_exts

\* the extension test of walk: the lower-cased extension is in ignore_exts
ExtIgnored(entry_name, ignore_exts) ==
    LET ext == Extension(entry_name)
    IN  ext.some /\ ToLowercase(ext.val) \in ignore_exts

\* variant: the directory-ignore list is not consulted
IgnoredFilesOnly(f, abs_path, entry_name, ignore_dirs, ignore_files, ignore_exts) ==
    IF IsDir(f, abs_path)
    THEN FALSE
    ELSE entry_name \in ignore_files \/ ExtIgnored(entry_name, ignore_exts)

\* the `ignore` flag of walk for one entry that passed the dotfile rule
Ignored(f, abs_path, entry_name, ignore_dirs, ignore_files, ignore_exts) ==
    IF IsDir(f, abs_path)
    THEN entry_name \in Range(ignore_dirs)
    ELSE entry_name \in ignore_files \/ ExtIgnored(entry_name, ignore_exts)

\* the first loop of walk: the lossy names of the entries that are kept, in
\* listing order; abs.join(entry_name) is the entry itself only when its name
\* is UTF-8
VisibleEntries(f, abs, ord, ignore_dirs, ignore_files, ignore_exts) ==
    LET Keep(entry_name) ==
            /\ ~DotHidden(entry_name)
            /\ ~Ignored(f, abs \o <<entry_name>>, entry_name, ignore_dirs, ignore_files, ignore_exts)
    IN  SelectSeq(LossyNames(ReadDir(f, abs, ord)), Keep)

\* variant: the entries stay in listing order
SortVisibleUnsorted(visible_entries) == visible_entries

\* visible_entries.sort()
SortVisible(visible_entries) == Sort(visible_entries)

RECURSIVE Walk(_, _, _, _, _, _, _, _)
RECURSIVE WalkLoop(_, _, _, _, _, _, _, _, _, _)

\* the second loop of walk: render each visible entry, recurse into directories
WalkLoop(f, abs, current_indent, ord, ignore_dirs, ignore_files, ignore_exts, visible_entries, i, acc) ==
    IF i > Len(visible_entries) THEN acc
    ELSE LET entry == visible_entries[i]
             is_last == (i = Len(visible_entries))
             connector == IF is_last THEN ConnLast ELSE ConnMid
             abs_path == abs \o <<entry>>
             child_indent == current_indent \o (IF is_last THEN IndentLast ELSE IndentMid)
             next ==
                 IF IsDir(f, abs_path)
                 THEN Walk(f, abs_path, child_indent, ord, ignore_dirs, ignore_files, ignore_exts,
                           [tree |-> Append(acc.tree, TreeLine(current_indent, connector, entry, TRUE)),
                            files |-> acc.files])
                 ELSE [tree |-> Append(acc.tree, TreeLine(current_indent, connector, entry, FALSE)),
                       files |-> Append(acc.files, abs_path)]
         IN  WalkLoop(f, abs, current_indent, ord, ignore_dirs, ignore_files, ignore_exts,
                      visible_entries, i + 1, next)

\* walk: abs is also the path relative to the scan root (the root is <<>>)
Walk(f, abs, current_indent, ord, ignore_dirs, ignore_files, ignore_exts, acc) ==
    WalkLoop(f, abs, current_indent, ord, ignore_dirs, ignore_files, ignore_exts,
             SortVisible(VisibleEntries(f, abs, ord, ignore_dirs, ignore_files, ignore_exts)), 1, acc)

-----------------------------------------------------------------------------
(* The prompt assembler *)

\* ignore_exts: the file-ignore entries without a leading '.', lower-cased
IgnoreExts(ignore_files) == {ToLowercase(StripDotPrefix(s)) : s \in Range(ignore_files)}

\* prompt_ignores: "<d>_prompt.txt" for every collected directory name
PromptIgnores(dir_names) == {d \o PromptTxt : d \in dir_names}

\* all_ignore_files = merge(ignore_files, &prompt_ignores), used by `contains` only
AllIgnoreFiles(ignore_files, dir_names) == Range(ignore_files) \cup PromptIgnores(dir_names)

\* variant: a filter is compared with the file's extension
FilterAcceptsByExtension(filter, rel) ==
    \/ filter = <<>>
    \/ \E k \in DOMAIN filter :
           /\ Extension(Last(rel)).some
           /\ Extension(Last(rel)).val = StripDotPrefix(filter[k])

\* the filter test of the assembly loop
FilterAccepts(filter, rel) ==
    \/ filter = <<>>
    \/ \E k \in DOMAIN filter : EndsWith(PathString(rel), filter[k])

\* fs::read_to_string(..).unwrap_or_else(|_| "BINARY OR UNREADABLE")
ReadToString(f, full) ==
    IF IsFile(f, full) /\ f[full].readable THEN f[full].text ELSE BinaryOrUnreadable

\* variant: only a file with no character at all counts as empty
BlockContentEmptyOnly(f, full) ==
    LET content == ReadToString(f, full)
    IN  IF content = <<>> THEN EmptyFile ELSE content

\* the content a file block holds
BlockContent(f, full) ==
    LET content == ReadToString(f, full)
    IN  IF TrimIsEmpty(content) THEN EmptyFile ELSE content

\* the `for rel in files` loop: one block per accepted file, in file-list order
RECURSIVE Blocks(_, _, _)
Blocks(f, files, filter) ==
    IF files = <<>> THEN <<>>
    ELSE LET rel == Head(files)
         IN  (IF FilterAccepts(filter, rel)
              THEN <<[path |-> rel, content |-> BlockContent(f, rel)]>>
              ELSE <<>>) \o Blocks(f, Tail(files), filter)

BlockText(b) == BlockHead \o PathString(b.path) \o BlockMid \o b.content \o BlockTail

RECURSIVE BlocksText(_)
BlocksText(blocks) == IF blocks = <<>> THEN <<>> ELSE BlockText(Head(blocks)) \o BlocksText(Tail(blocks))

\* the `dir` argument, by how it names the root: "name" is "." or a path whose
\* last component is the root's own name, "link" is a path whose last
\* component is a symbolic link to the root, kept beside the root and named
\* LinkName, and ".." is a path with no last component: "./", or one that
\* ends in ".."
DirArgs == {"name", "link", ".."}

\* `base`: the last component of the `dir` argument as it was typed, no link
\* resolved ("." reads the working directory's name); "./" and a path that
\* ends in ".." have none
BaseName(dirArg) ==
    IF dirArg = ".." THEN [some |-> FALSE, val |-> <<>>]
    ELSE IF dirArg = "link" THEN [some |-> TRUE, val |-> LinkName]
    ELSE [some |-> TRUE, val |-> RootName]

\* `dir_name`: the last component of the canonical path of `dir`, every link
\* resolved: the root's own name, however the argument named it
DirName(dirArg) == RootName

\* build_prompt_internal
BuildPromptInternal(f, dirArg, filter, ignore_dirs, ignore_files, tree_only, ord) ==
    LET base == BaseName(dirArg)
        ignore_exts == IgnoreExts(ignore_files)
        dir_names == {base.val} \cup CollectDirs(f, Root, ignore_dirs, ord)
        all_ignore_files == AllIgnoreFiles(ignore_files, dir_names)
        walked == Walk(f, Root, <<>>, ord, ignore_dirs, all_ignore_files, ignore_exts,
                       [tree |-> <<TreeLine(<<>>, <<>>, base.val, TRUE)>>, files |-> <<>>])
        blocks == IF tree_only THEN <<>> ELSE Blocks(f, walked.files, filter)
    IN  IF ~base.some
        THEN [status |-> "invalid directory", dir_names |-> {}, tree |-> <<>>, files |-> <<>>,
              blocks |-> <<>>, prompt |-> <<>>]
        ELSE [status |-> "ok", dir_names |-> dir_names, tree |-> walked.tree, files |-> walked.files,
              blocks |-> blocks,
              prompt |-> IF tree_only THEN TreeText(walked.tree)
                         ELSE DocHead \o TreeText(walked.tree) \o DocMid
                                  \o BlocksText(blocks) \o DocTail]

-----------------------------------------------------------------------------
(* The cleanup *)

RECURSIVE FindAllPrompts(_, _, _, _)
RECURSIVE FindAllPromptsLoop(_, _, _, _, _, _)

\* the `for entry in fs::read_dir(current_dir)?` loop of find_all_prompts
FindAllPromptsLoop(f, current_dir, ord, entries, i, prompt_files) ==
    IF i > Len(entries) THEN prompt_files
    ELSE LET filename == entries[i]
             path == current_dir \o <<filename>>
         IN  FindAllPromptsLoop(f, current_dir, ord, entries, i + 1,
                 IF IsDir(f, path) THEN FindAllPrompts(f, path, ord, prompt_files)
                 ELSE IF IsUtf8(filename) /\ EndsWith(filename, PromptTxt)
                 THEN Append(prompt_files, path)
                 ELSE prompt_files)

\* find_all_prompts: pass 2 of the cleanup, every directory is entered
FindAllPrompts(f, current_dir, ord, prompt_files) ==
    IF ~IsDir(f, current_dir) THEN prompt_files
    ELSE FindAllPromptsLoop(f, current_dir, ord, ReadDir(f, current_dir, ord), 1, prompt_files)

\* variant: every "*_prompt.txt" file is deleted
IsValidPromptAnyName(file_path, valid_dir_names) ==
    StripSuffix(FileStem(Last(file_path)), PromptSuffix).some

\* the test of pass 3: the file's stem without "_prompt" is a valid directory name
IsValidPrompt(file_path, valid_dir_names) ==
    LET stem == FileStem(Last(file_path))
        base_name == StripSuffix(stem, PromptSuffix)
    IN  IsUtf8(stem) /\ base_name.some /\ base_name.val \in valid_dir_names

RemoveFile(f, file_path) == [p \in DOMAIN f \ {file_path} |-> f[p]]

\* variant: a failed deletion is noted and the loop goes on
RECURSIVE CleanLoopContinue(_, _, _, _, _, _)
CleanLoopContinue(f, prompt_files, i, valid_dir_names, failAt, cleaned_count) ==
    IF i > Len(prompt_files)
    THEN [status |-> IF failAt > 0 /\ failAt <= cleaned_count THEN "io error" ELSE "ok",
          fs |-> f, cleaned_count |-> cleaned_count, failed_at |-> 0]
    ELSE IF IsValidPrompt(prompt_files[i], valid_dir_names)
    THEN CleanLoopContinue(IF cleaned_count + 1 = failAt THEN f ELSE RemoveFile(f, prompt_files[i]),
                           prompt_files, i + 1, valid_dir_names, failAt, cleaned_count + 1)
    ELSE CleanLoopContinue(f, prompt_files, i + 1, valid_dir_names, failAt, cleaned_count)

\* pass 3: validate and delete; the failAt-th call of fs::remove_file fails
\* (failAt = 0: none does) and `?` returns the error at once
RECURSIVE CleanLoop(_, _, _, _, _, _)
CleanLoop(f, prompt_files, i, valid_dir_names, failAt, cleaned_count) ==
    IF i > Len(prompt_files)
    THEN [status |-> "ok", fs |-> f, cleaned_count |-> cleaned_count, failed_at |-> 0]
    ELSE IF IsValidPrompt(prompt_files[i], valid_dir_names)
    THEN IF cleaned_count + 1 = failAt
         THEN [status |-> "io error", fs |-> f, cleaned_count |-> cleaned_count, failed_at |-> i]
         ELSE CleanLoop(RemoveFile(f, prompt_files[i]), prompt_files, i + 1, valid_dir_names,
                        failAt, cleaned_count + 1)
    ELSE CleanLoop(f, prompt_files, i + 1, valid_dir_names, failAt, cleaned_count)

\* run_cli with --clean
RunClean(f, dir_ignore, ord, failAt) ==
    LET valid_dir_names == CollectAllSubDirNames(f, Root, dir_ignore, ord, {RootName})
        prompt_files_to_check == FindAllPrompts(f, Root, ord, <<>>)
        done == CleanLoop(f, prompt_files_to_check, 1, valid_dir_names, failAt, 0)
    IN  [status |-> done.status, fs |-> done.fs, cleaned_count |-> done.cleaned_count,
         failed_at |-> done.failed_at, valid_dir_names |-> valid_dir_names,
         prompt_files |-> prompt_files_to_check]

-----------------------------------------------------------------------------
(* Invocations *)

None == [some |-> FALSE, val |-> <<>>]
Some(v) == [some |-> TRUE, val |-> v]

Invocation(config_dirs, config_files, ignore_dirs, ignore_files, filter, tree_only, outfile) ==
    [config_dirs |-> config_dirs, config_files |-> config_files,
     ignore_dirs |-> ignore_dirs, ignore_files |-> ignore_files,
     filter |-> filter, tree_only |-> tree_only, outfile |-> outfile, cp |-> FALSE]

\* the same command line with --cp
WithCp(cli) == [cli EXCEPT !.cp = TRUE]

\* the command run_cli parsed: --clean or not, the flags, and where it was started
Command(kind, cli, cwd, dirArg) == [kind |-> kind, cli |-> cli, cwd |-> cwd, dirArg |-> dirArg]
NoCommand == Command("none", Invocation(<<>>, <<>>, <<>>, <<>>, <<>>, FALSE, None), Outside, "name")

DirIgnore(cli) == Merge(cli.config_dirs, cli.ignore_dirs)
FileIgnore(cli) == Merge(cli.config_files, cli.ignore_files)

NoOut == [status |-> "none", dir_names |-> {}, tree |-> <<>>, files |-> <<>>,
          blocks |-> <<>>, prompt |-> <<>>, written |-> Outside, copied |-> FALSE]
NoClean == [status |-> "none", cleaned_count |-> 0, failed_at |-> 0,
            valid_dir_names |-> {}, prompt_files |-> <<>>]

NodeCount == Cardinality(DOMAIN fs) - 1
Dirs(f) == {p \in DOMAIN f : f[p].kind = "dir"}
Files(f) == {p \in DOMAIN f : f[p].kind = "file"}

-----------------------------------------------------------------------------
(* Actions *)

Init ==
    /\ fs = (Root :> DirNode)
    /\ cmd = NoCommand
    /\ runs = 0
    /\ scanned = fs
    /\ out = NoOut
    /\ prev = NoOut
    /\ cleanOut = NoClean

CanCreate(parent, name) ==
    /\ runs = 0
    /\ NodeCount < MaxNodes
    /\ IsDir(fs, parent)
    /\ Len(parent) < MaxDepth
    /\ (parent \o <<name>>) \notin DOMAIN fs

\* the environment makes a directory
Mkdir(parent, name) ==
    /\ CanCreate(parent, name)
    /\ fs' = fs @@ ((parent \o <<name>>) :> DirNode)
    /\ scanned' = fs'
    /\ UNCHANGED <<cmd, runs, out, prev, cleanOut>>

\* the environment makes a file
Touch(parent, name, node) ==
    /\ CanCreate(parent, name)
    /\ fs' = fs @@ ((parent \o <<name>>) :> node)
    /\ scanned' = fs'
    /\ UNCHANGED <<cmd, runs, out, prev, cleanOut>>

\* fs::write(&outpath, &prompt): the file is created or replaced
WriteFile(f, target, text) ==
    [p \in DOMAIN f \cup {target} |-> IF p = target THEN FileNode(TRUE, text) ELSE f[p]]

\* whether the system clipboard takes the text
ClipOutcomes == {"ok", "fail"}

\* run_cli without --clean, started in the working directory cwd; --outpath is
\* left at its default, the working directory, and --tree's printing changes
\* nothing the model holds.  With --cp the prompt goes to the clipboard before
\* the file is written: clip says whether the clipboard takes it, and when it
\* does not the run ends there, with nothing written
Generate(cli, cwd, dirArg, ord, clip) ==
    /\ runs < MaxRuns
    /\ runs > 0 => cmd = Command("generate", cli, cwd, dirArg)
    /\ cwd = Outside \/ IsDir(fs, cwd)
    /\ ~cli.cp => clip = "ok"
    /\ LET dir_name == DirName(dirArg)
           outfile == IF cli.outfile.some THEN cli.outfile.val ELSE dir_name \o PromptSuffix
           built == BuildPromptInternal(fs, dirArg, cli.filter, DirIgnore(cli), FileIgnore(cli),
                                        cli.tree_only, ord)
           outpath == cwd \o <<outfile \o DotTxt>>
       IN  IF built.status # "ok"
           THEN /\ out' = built @@ [written |-> Outside, copied |-> FALSE]
                /\ fs' = fs
           ELSE IF cli.cp /\ clip = "fail"
           THEN /\ out' = [built EXCEPT !.status = "clipboard error"]
                               @@ [written |-> Outside, copied |-> FALSE]
                /\ fs' = fs
           ELSE IF cwd = Outside
           THEN /\ out' = built @@ [written |-> Outside, copied |-> cli.cp]
                /\ fs' = fs
           ELSE IF IsDir(fs, outpath)
           THEN /\ out' = [built EXCEPT !.status = "io error"]
                               @@ [written |-> Outside, copied |-> cli.cp]
                /\ fs' = fs
           ELSE /\ out' = built @@ [written |-> outpath, copied |-> cli.cp]
                /\ fs' = WriteFile(fs, outpath, built.prompt)
    /\ scanned' = fs
    /\ prev' = out
    /\ runs' = runs + 1
    /\ cleanOut' = NoClean
    /\ cmd' = Command("generate", cli, cwd, dirArg)

\* run_cli with --clean; the root always exists here, so the "Invalid directory
\* provided for cleaning" exit is never taken
Clean(cli, ord, failAt) ==
    /\ runs < MaxRuns
    /\ runs > 0 => cmd = Command("clean", cli, Outside, "name")
    /\ LET r == RunClean(fs, DirIgnore(cli), ord, failAt)
       IN  /\ fs' = r.fs
           /\ cleanOut' = [status |-> r.status, cleaned_count |-> r.cleaned_count,
                           failed_at |-> r.failed_at, valid_dir_names |-> r.valid_dir_names,
                           prompt_files |-> r.prompt_files]
    /\ scanned' = fs
    /\ prev' = out
    /\ out' = NoOut
    /\ runs' = runs + 1
    /\ cmd' = Command("clean", cli, Outside, "name")

\* the environment builds the tree before the program runs
Env(dirNames, fileNames, contents) ==
    \/ \E parent \in DOMAIN fs, name \in dirNames : Mkdir(parent, name)
    \/ \E parent \in DOMAIN fs, name \in fileNames, node \in contents : Touch(parent, name, node)

-----------------------------------------------------------------------------
(* Walking: one generation, over trees and ignore lists that exercise the   *)
(* dotfile rule, the directory, name and extension ignores and the order    *)

WalkDirNames == {n_s, n_nm, n_h, n_env_example, n_xFF}
WalkFileNames == {n_a_py, n_B_PE, n_example_env}
WalkInvocations ==
    { Invocation(<<n_nm>>, <<>>, <<n_a_py>>, <<>>, <<>>, FALSE, None),
      Invocation(<<n_nm>>, <<e_dot_pe>>, <<>>, <<n_example_env, n_s>>, <<>>, FALSE, None),
      Invocation(<<n_s>>, <<e_PY, n_a_py>>, <<n_env_example>>, <<e_env>>, <<>>, TRUE, None) }

\* the runs are started outside the tree, where they write nothing into it
NextWalk ==
    \/ Env(WalkDirNames, WalkFileNames, {TextFile})
    \/ /\ runs = 0
       /\ \E ord \in ListOrders(fs), cli \in WalkInvocations, dirArg \in DirArgs :
             Generate(cli, Outside, dirArg, ord, "ok")

SpecWalk == Init /\ [][NextWalk]_vars

-----------------------------------------------------------------------------
(* Assembling: one generation, over file contents and filters *)

AssembleDirNames == {n_s}
AssembleFileNames == {n_a_py, n_B_PY, n_xFF}
AssembleInvocations ==
    { Invocation(<<>>, <<>>, <<>>, <<>>, <<>>, FALSE, None),
      Invocation(<<>>, <<>>, <<>>, <<>>, <<e_dot_py>>, FALSE, None),
      Invocation(<<>>, <<>>, <<>>, <<>>, <<f_s_a_py, e_PY>>, FALSE, None),
      Invocation(<<>>, <<>>, <<>>, <<>>, <<>>, TRUE, None) }

NextAssemble ==
    \/ Env(AssembleDirNames, AssembleFileNames, Contents)
    \/ /\ runs = 0
       /\ \E ord \in ListOrders(fs), cli \in AssembleInvocations, cwd \in DOMAIN fs \cup {Outside},
             dirArg \in DirArgs : Generate(cli, cwd, dirArg, ord, "ok")

SpecAssemble == Init /\ [][NextAssemble]_vars

-----------------------------------------------------------------------------
(* Repeating: the same generation command run again and again *)

RepeatDirNames == {n_s, n_nm}
RepeatFileNames == {n_B_PY, n_p_prompt, n_s_prompt}
RepeatInvocations ==
    { Invocation(<<n_nm>>, <<>>, <<>>, <<>>, <<>>, FALSE, None),
      Invocation(<<n_nm>>, <<>>, <<>>, <<>>, <<>>, TRUE, None),
      Invocation(<<n_nm>>, <<>>, <<>>, <<>>, <<>>, FALSE, Some(n_o_outfile)),
      WithCp(Invocation(<<n_nm>>, <<>>, <<>>, <<>>, <<>>, FALSE, None)) }

NextRepeat ==
    \/ Env(RepeatDirNames, RepeatFileNames, {TextFile})
    \/ /\ runs < MaxRuns
       /\ \E ord \in ListOrders(fs), cli \in RepeatInvocations, cwd \in DOMAIN fs \cup {Outside},
             dirArg \in DirArgs, clip \in ClipOutcomes : Generate(cli, cwd, dirArg, ord, clip)

SpecRepeat == Init /\ [][NextRepeat]_vars

-----------------------------------------------------------------------------
(* Cleaning: one cleanup, any one deletion of which may fail *)

CleanDirNames == {n_s, n_nm, n_h, n_xFF}
CleanFileNames == {n_B_PY, n_p_prompt, n_s_prompt, n_o_prompt, n_nm_prompt}
CleanInvocations ==
    { Invocation(<<n_nm>>, <<>>, <<>>, <<>>, <<>>, FALSE, None),
      Invocation(<<>>, <<>>, <<n_s>>, <<>>, <<>>, FALSE, None) }

NextClean ==
    \/ Env(CleanDirNames, CleanFileNames, {TextFile})
    \/ /\ runs = 0
       /\ \E ord \in ListOrders(fs), cli \in CleanInvocations, failAt \in 0..MaxNodes :
             Clean(cli, ord, failAt)

SpecClean == Init /\ [][NextClean]_vars

-----------------------------------------------------------------------------
(* Reading a result *)

\* the depth of a tree line: the root line has no connector
LineDepth(line) == IF line.connector = <<>> THEN 0 ELSE Len(line.indent) \div 4 + 1

\* the path a tree line shows: its name below the nearest earlier line one level up
RECURSIVE LinePath(_, _)
LinePath(tree, i) ==
    IF LineDepth(tree[i]) = 0 THEN <<>>
    ELSE LET ups == {k \in 1..(i - 1) : LineDepth(tree[k]) = LineDepth(tree[i]) - 1}
             up == CHOOSE k \in ups : \A m \in ups : m <= k
         IN  LinePath(tree, up) \o <<tree[i].name>>

\* the paths the tree text shows below the root line
TreePaths(tree) == {LinePath(tree, i) : i \in 2..Len(tree)}

\* a path as the output spells it: every component through to_string_lossy
LossyPath(p) == [k \in DOMAIN p |-> ToStringLossy(p[k])]

\* the entry at p is in the tree text or the file list, under the name the
\* output gives it
Shown(p) == LossyPath(p) \in TreePaths(out.tree) \/ LossyPath(p) \in Range(out.files)
Generated == cmd.kind = "generate" /\ out.status = "ok"
Cleaned == cmd.kind = "clean" /\ cleanOut.status # "none"
Below(f) == DOMAIN f \ {Root}

\* a file name matched by an entry e of the file-ignore list: the same name, or
\* the file's extension is e without its leading '.', letter case apart
MatchesFileEntry(name, e) ==
    \/ name = e
    \/ /\ Extension(name).some
       /\ ToLowercase(Extension(name).val) = ToLowercase(StripDotPrefix(e))

\* a directory on the way to p (p included) is on the directory-ignore list
UnderIgnoredDir(f, p, dir_ignore) ==
    \E k \in 1..Len(p) : IsDir(f, SubSeq(p, 1, k)) /\ p[k] \in Range(dir_ignore)

\* a component of p is a dotfile name other than the two example-env names
UnderDotEntry(p) ==
    \E k \in 1..Len(p) : StartsWithDot(p[k]) /\ p[k] \notin {n_env_example, n_example_env}

\* directories reached from the root through directories whose names, read
\* through to_string_lossy, are neither dot-named nor on the directory-ignore list
ReachableDirs(f, dir_ignore) ==
    {d \in Dirs(f) \ {Root} :
        \A k \in 1..Len(d) : /\ ~StartsWithDot(ToStringLossy(d[k]))
                             /\ ToStringLossy(d[k]) \notin Range(dir_ignore)}

\* the names of the reachable directories whose own name is UTF-8
ReachableDirNames(f, dir_ignore) ==
    {Last(d) : d \in {q \in ReachableDirs(f, dir_ignore) : IsUtf8(Last(q))}}

\* the names of the reachable directories on the way to which every name is UTF-8
Utf8ReachableDirNames(f, dir_ignore) ==
    {Last(d) : d \in {q \in ReachableDirs(f, dir_ignore) : \A k \in 1..Len(q) : IsUtf8(q[k])}}

-----------------------------------------------------------------------------
(* Claims *)

\* C1: a file whose name equals a file-ignore entry, or whose extension equals
\* an entry (leading '.' optional, letter case apart), is in neither the tree
\* text nor the file list of a generation.
C1_IgnoredFilesAbsent ==
    Generated =>
        \A p \in Files(scanned) :
            (\E e \in Range(FileIgnore(cmd.cli)) : MatchesFileEntry(Last(p), e)) => ~Shown(p)

\* a top-level "B.PÉ" met the entry ".pé"
C1_Witness ==
    /\ Generated
    /\ IsFile(scanned, <<n_B_PE>>)
    /\ e_dot_pe \in Range(FileIgnore(cmd.cli))
    /\ Len(out.tree) > 1

\* C2: nothing at or below a non-root directory named on the directory-ignore
\* list is in the tree text or the file list.
C2_IgnoredDirsContributeNothing ==
    Generated =>
        \A p \in Below(scanned) : UnderIgnoredDir(scanned, p, DirIgnore(cmd.cli)) => ~Shown(p)

\* an ignored "nm" held a file that no ignore entry matches
C2_Witness ==
    /\ Generated
    /\ n_nm \in Range(DirIgnore(cmd.cli))
    /\ IsFile(scanned, <<n_nm, n_a_py>>)
    /\ ~(\E e \in Range(FileIgnore(cmd.cli)) : MatchesFileEntry(n_a_py, e))

\* C6: the lines of one level of the tree are in ascending code-unit order of
\* their names, files and directories alike, and the tree and the file list
\* are the same whatever order the directories are listed in.
C6_SiblingsSorted ==
    Generated =>
        /\ \A i, j \in 2..Len(out.tree) :
               (i < j /\ Parent(LinePath(out.tree, i)) = Parent(LinePath(out.tree, j)))
                   => StrLess(out.tree[i].name, out.tree[j].name)
        /\ \A ord \in ListOrders(scanned) :
               LET again == BuildPromptInternal(scanned, cmd.dirArg, cmd.cli.filter,
                                DirIgnore(cmd.cli), FileIgnore(cmd.cli), cmd.cli.tree_only, ord)
               IN  again.tree = out.tree /\ again.files = out.files

\* "B.PÉ", "a.py" and the directory "s" were shown side by side
C6_Witness ==
    /\ Generated
    /\ {<<n_B_PE>>, <<n_a_py>>, <<n_s>>} \subseteq TreePaths(out.tree)
    /\ IsDir(scanned, <<n_s>>)

\* an example-env entry that no ignore entry matches
NotIgnoredEntry(f, p, cli) ==
    IF IsDir(f, p)
    THEN Last(p) \notin Range(DirIgnore(cli))
    ELSE ~(\E e \in Range(FileIgnore(cli)) : MatchesFileEntry(Last(p), e))

\* C7: an entry below a dot-named entry (other than the two example-env names),
\* or one itself, is never shown; an entry named ".env.example" or
\* ".example.env" whose directory is walked is shown unless an ignore entry
\* matches it.
C7_DotEntriesHidden ==
    Generated =>
        /\ \A p \in Below(scanned) : UnderDotEntry(p) => ~Shown(p)
        /\ \A p \in Below(scanned) :
               ( /\ Last(p) \in {n_env_example, n_example_env}
                 /\ (Parent(p) = Root \/ Parent(p) \in TreePaths(out.tree))
                 /\ NotIgnoredEntry(scanned, p, cmd.cli) )
               => /\ p \in TreePaths(out.tree)
                  /\ IsFile(scanned, p) => p \in Range(out.files)

\* a shown ".env.example" directory held a hidden ".h" and a shown ".example.env"
C7_Witness ==
    /\ Generated
    /\ <<n_env_example, n_example_env>> \in Range(out.files)
    /\ <<n_env_example, n_h>> \in DOMAIN scanned

\* C5: the file blocks are those of the walker's file list, in its order, that
\* the filter accepts: all with no filter, else the files whose relative path
\* ends with one of the filter strings.
C5_BlocksAreFilteredFiles ==
    (Generated /\ ~cmd.cli.tree_only) =>
        LET Accepted(rel) ==
                \/ cmd.cli.filter = <<>>
                \/ \E k \in DOMAIN cmd.cli.filter : EndsWith(PathString(rel), cmd.cli.filter[k])
        IN  [i \in DOMAIN out.blocks |-> out.blocks[i].path] = SelectSeq(out.files, Accepted)

\* the filter "s/a.py", "PY" took "s/a.py" and left "a.py" out
C5_Witness ==
    /\ Generated
    /\ cmd.cli.filter = <<f_s_a_py, e_PY>>
    /\ out.files = <<<<n_a_py>>, <<n_s, n_a_py>>>>
    /\ Len(out.blocks) = 1

\* C9: every accepted file has its block, holding "BINARY OR UNREADABLE" when
\* the read of the file, at the path the document names, gives no text,
\* "EMPTY FILE" when the text is empty or blank, and the text itself
\* otherwise; the generation does not fail.
C9_ContentPlaceholders ==
    (cmd.kind = "generate" /\ cmd.dirArg # ".." /\ ~cmd.cli.tree_only) =>
        /\ out.status = "ok"
        /\ \A rel \in Range(out.files) :
               FilterAccepts(cmd.cli.filter, rel) => \E i \in DOMAIN out.blocks : out.blocks[i].path = rel
        /\ \A i \in DOMAIN out.blocks :
               LET path == out.blocks[i].path
                   reads == IsFile(scanned, path) /\ scanned[path].readable
               IN  out.blocks[i].content =
                       IF ~reads THEN BinaryOrUnreadable
                       ELSE IF \A k \in DOMAIN scanned[path].text : IsWhitespace(scanned[path].text[k])
                       THEN EmptyFile
                       ELSE scanned[path].text

\* an unreadable file and a blank file each got their block
C9_Witness ==
    /\ Generated
    /\ Len(out.blocks) = 2
    /\ \E i, j \in DOMAIN out.blocks :
           /\ IsFile(scanned, out.blocks[i].path)
           /\ ~scanned[out.blocks[i].path].readable
           /\ IsFile(scanned, out.blocks[j].path)
           /\ scanned[out.blocks[j].path] = FileNode(TRUE, t_ws)

\* C4: with the default output name, a generation repeated on the tree the
\* first run left gives the same prompt, and the file the first run wrote is
\* in neither the tree text, the file list nor the blocks of the second.
C4_RepeatIsIdentical ==
    ( /\ runs >= 2
      /\ Generated
      /\ prev.status = "ok"
      /\ ~cmd.cli.outfile.some )
    => /\ out.prompt = prev.prompt
       /\ ~Shown(prev.written)
       /\ \A i \in DOMAIN out.blocks : out.blocks[i].path # prev.written

\* the files a cleanup is to remove: "<base>_prompt.txt" anywhere below the
\* root, <base> the root's name or the name of a reachable directory
Removable(f, dir_ignore) ==
    {p \in Files(f) :
        /\ EndsWith(Last(p), PromptTxt)
        /\ SubSeq(Last(p), 1, Len(Last(p)) - Len(PromptTxt))
               \in {RootName} \cup ReachableDirNames(f, dir_ignore)}

\* C3: a cleanup that succeeds removes exactly the files named
\* "<base>_prompt.txt", <base> the root's name or the name of a collected
\* directory, wherever they lie, and leaves everything else as it was.
C3_CleanRemovesExactly ==
    (Cleaned /\ cleanOut.status = "ok") =>
        /\ DOMAIN scanned \ DOMAIN fs = Removable(scanned, DirIgnore(cmd.cli))
        /\ DOMAIN fs \subseteq DOMAIN scanned
        /\ \A p \in DOMAIN fs : fs[p] = scanned[p]
        /\ cleanOut.cleaned_count = Cardinality(Removable(scanned, DirIgnore(cmd.cli)))

\* "p_prompt.txt" was removed from inside the dot directory ".h" while
\* "o_prompt.txt" stayed
C3_Witness ==
    /\ Cleaned
    /\ cleanOut.status = "ok"
    /\ <<n_h, n_p_prompt>> \in DOMAIN scanned \ DOMAIN fs
    /\ <<n_o_prompt>> \in DOMAIN fs

\* C8: when a deletion fails the cleanup ends in an error there: the valid
\* candidates before the failing one are gone, the failing one and every later
\* candidate are still in place, and nothing else changed.
C8_CleanStopsAtFailure ==
    (Cleaned /\ cleanOut.status = "io error") =>
        LET cands == cleanOut.prompt_files
            k == cleanOut.failed_at
            valid(i) == IsValidPrompt(cands[i], cleanOut.valid_dir_names)
        IN  /\ k \in DOMAIN cands
            /\ valid(k)
            /\ DOMAIN scanned \ DOMAIN fs = {cands[i] : i \in {j \in 1..(k - 1) : valid(j)}}
            /\ \A i \in k..Len(cands) : cands[i] \in DOMAIN fs
            /\ \A p \in DOMAIN fs : p \in DOMAIN scanned /\ fs[p] = scanned[p]

\* the second deletion failed after the first had removed a file
C8_Witness ==
    /\ Cleaned
    /\ cleanOut.status = "io error"
    /\ cleanOut.cleaned_count = 1
    /\ Cardinality(DOMAIN scanned \ DOMAIN fs) = 1

\* C10 (as claimed): the collected names are the names of all directories below
\* the root that are neither dot-named nor on the directory-ignore list.
C10_AllUnignoredDirNames ==
    Cleaned =>
        cleanOut.valid_dir_names =
            {RootName} \cup {Last(d) : d \in {q \in Dirs(scanned) \ {Root} :
                                 ~StartsWithDot(Last(q)) /\ Last(q) \notin Range(DirIgnore(cmd.cli))}}

\* C10 (amended): the names the cleanup collects are the UTF-8 names of the
\* directories reached from the root through directories that are neither
\* dot-named nor ignored, with or without files in them; collect_dirs returns
\* those of them on the way to which every name is UTF-8; so the two collectors
\* return the same set on a tree whose directory names are all UTF-8, in every
\* listing order.
C10_ReachableDirNames ==
    Cleaned =>
        /\ cleanOut.valid_dir_names = {RootName} \cup ReachableDirNames(scanned, DirIgnore(cmd.cli))
        /\ \A ord \in ListOrders(scanned) :
               /\ CollectAllSubDirNames(scanned, Root, DirIgnore(cmd.cli), ord, {})
                      = ReachableDirNames(scanned, DirIgnore(cmd.cli))
               /\ CollectDirs(scanned, Root, DirIgnore(cmd.cli), ord)
                      = Utf8ReachableDirNames(scanned, DirIgnore(cmd.cli))
               /\ (\A d \in Dirs(scanned) : \A k \in 1..Len(d) : IsUtf8(d[k]))
                      => CollectAllSubDirNames(scanned, Root, DirIgnore(cmd.cli), ord, {})
                             = CollectDirs(scanned, Root, DirIgnore(cmd.cli), ord)

\* the ignored "nm" held a directory "s", which was not collected, beside a
\* directory whose name is not UTF-8, which was not named either
C10_Witness ==
    /\ Cleaned
    /\ n_nm \in Range(DirIgnore(cmd.cli))
    /\ IsDir(scanned, <<n_nm, n_s>>)
    /\ IsDir(scanned, <<n_xFF>>)
    /\ n_s \notin cleanOut.valid_dir_names

====
